---- MODULE Spec2Model ----
(***************************************************************************)
(* Booking lifecycle and slot-consistency engine of the HOURFIX backend    *)
(* (src/server.js; src/unnamed/part_000 is a later revision of the same    *)
(* file whose booking handlers are statement-for-statement identical).     *)
(*                                                                         *)
(* The store is the SQLite database: the tables availability, services,    *)
(* bookings and reviews are sequences whose index is the AUTOINCREMENT id  *)
(* (no handler deletes a row), businesses is indexed by the business id.   *)
(* Every Express handler is synchronous, so inside one Node process a      *)
(* handler runs to completion: Spec has one action per handler.  SpecConc  *)
(* models several server processes on the same database file: there the    *)
(* statements of POST /api/bookings that run before db.transaction and the *)
(* transaction itself are separate steps.  SpecCode and SpecFail take one  *)
(* handler statement by statement inside one process: the while loop of    *)
(* genCode, and the two writes of reject with a failure between them.      *)
(*                                                                         *)
(* Units.  Time is counted in minutes, a slot's (date,time) being the      *)
(* minute of the appointment.  A price is counted in thousandths of a euro *)
(* (REAL column, no validation of decimals), commission_amount and         *)
(* cancellation_charge in cents (the result of toFixed(2)).  toFixed(2)    *)
(* rounds to the nearest cent, a tie going up; the prices used are exact   *)
(* decimal values whose products are no ties, so the binary double and the *)
(* decimal value round alike.  A rating is counted in tenths (the JSON     *)
(* number 2.5 is 25), as is the rating of a business (toFixed(1)).         *)
(***************************************************************************)
EXTENDS Integers, Sequences, FiniteSets, TLC

VARIABLES
    availability,   \* table availability: <<[business_id, date, status]>>
    services,       \* table services: <<[business_id, price, active]>>
    bookings,       \* table bookings
    now,            \* the clock read by new Date()
    reqs,           \* per server process: the request in flight
    last,           \* the request handled last and its response
    reviews,        \* table reviews: <<[booking_id, client_id, business_id, rating]>>
    businesses      \* table businesses: id -> [rating, total_reviews]

vars == <<availability, services, bookings, now, reqs, last, reviews, businesses>>

\* ------------------------------------------------------------------ bounds
MaxBookings == 2      \* rows of the bookings table
MaxEntries  == 2      \* entries of one bulk schedule edit
MaxCodes    == 2      \* distinct candidates genCode can return

\* ------------------------------------------------------- program constants
CommissionRatePct == 15     \* commission_rate REAL DEFAULT 0.15
CancelFractionPct == 50     \* booking.price * 0.5
FreeCancelHours   == 24     \* hoursLeft < 24
MinutesPerHour    == 60     \* / 3600000 (milliseconds per hour)

\* ------------------------------------------------------------ input sets
Procs      == {1, 2}
UserTypes  == {"client", "business"}
NULL       == -1
SlotDates  == {FreeCancelHours * MinutesPerHour}
TwoDates   == {FreeCancelHours * MinutesPerHour, 2 * FreeCancelHours * MinutesPerHour}
Instants   == {0, 1}
NoStatus   == ""
Codes      == 1 .. MaxCodes
BookingIds == 1 .. MaxBookings
ServiceIds == {1, 2}
BusinessIds == {1, 2}
ClientIds  == {1, 2}
Idle       == [busy |-> FALSE]

\* ------------------------------------------------------------- arithmetic
\* Number.prototype.toFixed(2) of n / 10^k euros, n >= 0, as cents.
ToFixed2(n, scale) == (2 * n + scale) \div (2 * scale)

\* The commission cut to whole cents instead of rounded.
Commission_Truncated(price, ratePct) == (price * ratePct) \div 1000

\* parseFloat((service.price * biz.commission_rate).toFixed(2))
Commission(price, ratePct) == ToFixed2(price * ratePct, 1000)

\* parseFloat((booking.price * 0.5).toFixed(2))
HalfPrice(price) == ToFixed2(price * CancelFractionPct, 1000)

\* hoursLeft <= 24: the boundary taken on the wrong side.
HoursLeftBelow24_Inclusive(date, t) ==
    (date - t) <= FreeCancelHours * MinutesPerHour

\* hoursLeft < 24
HoursLeftBelow24(date, t) == (date - t) < FreeCancelHours * MinutesPerHour

\* const charge = hoursLeft < 24 ? parseFloat((booking.price*0.5).toFixed(2)) : 0
CancelCharge(price, date, t) ==
    IF HoursLeftBelow24(date, t) THEN HalfPrice(price) ELSE 0

\* ------------------------------------------------------------------ store
\* SELECT * FROM availability WHERE business_id=? AND date=? AND time=?
\* (UNIQUE(business_id,date,time): at most one row); 0 when there is none.
SlotAt(av, b, d) ==
    IF \E i \in 1 .. Len(av) : av[i].business_id = b /\ av[i].date = d
    THEN CHOOSE i \in 1 .. Len(av) : av[i].business_id = b /\ av[i].date = d
    ELSE 0

\* s.status || 'available'
StatusOrDefault(st) == IF st = NoStatus THEN "available" ELSE st

\* The upsert without WHERE status!='booked'.
UpsertOne_Overwrite(av, b, e) ==
    LET i == SlotAt(av, b, e.date) IN
    IF i = 0
    THEN Append(av, [business_id |-> b, date |-> e.date,
                     status |-> StatusOrDefault(e.status)])
    ELSE [av EXCEPT ![i].status = StatusOrDefault(e.status)]

\* INSERT INTO availability ... ON CONFLICT(business_id,date,time)
\* DO UPDATE SET status=excluded.status WHERE status!='booked'
UpsertOne(av, b, e) ==
    LET i == SlotAt(av, b, e.date) IN
    IF i = 0
    THEN Append(av, [business_id |-> b, date |-> e.date,
                     status |-> StatusOrDefault(e.status)])
    ELSE IF av[i].status # "booked"
         THEN [av EXCEPT ![i].status = StatusOrDefault(e.status)]
         ELSE av

\* slots.forEach(s => upsert.run(...)) inside one transaction
RECURSIVE UpsertAll(_, _, _)
UpsertAll(av, b, slots) ==
    IF slots = <<>> THEN av
    ELSE UpsertAll(UpsertOne(av, b, Head(slots)), b, Tail(slots))

\* The lookup without its business_id filter: an available slot of any
\* business at the date.
AvailableSlot_AnyBusiness(av, b, d) ==
    IF \E i \in 1 .. Len(av) : av[i].date = d /\ av[i].status = "available"
    THEN CHOOSE i \in 1 .. Len(av) : av[i].date = d /\ av[i].status = "available"
    ELSE 0

\* SELECT * FROM availability WHERE business_id=? AND date=? AND time=?
\* AND status='available'; 0 when there is none.
AvailableSlot(av, b, d) ==
    LET i == SlotAt(av, b, d) IN
    IF i # 0 /\ av[i].status = "available" THEN i ELSE 0

\* The lookup without its business_id filter.
ActiveService_AnyBusiness(sv, sid, b) ==
    IF sid \in 1 .. Len(sv) /\ sv[sid].active = 1 THEN sid ELSE 0

\* SELECT * FROM services WHERE id=? AND business_id=? AND active=1
ActiveService(sv, sid, b) ==
    IF sid \in 1 .. Len(sv) /\ sv[sid].business_id = b /\ sv[sid].active = 1
    THEN sid ELSE 0

\* The lookup that never finds the code.
CodeTaken_Unchecked(bk, code) == FALSE

\* SELECT id FROM bookings WHERE confirmation_code=? (also the test of
\* confirmation_code TEXT UNIQUE on INSERT)
CodeTaken(bk, code) == \E i \in 1 .. Len(bk) : bk[i].confirmation_code = code

\* The lookup without its business_id filter.
BookingOfBusiness_AnyOwner(bk, id, b) == id \in 1 .. Len(bk)

\* SELECT * FROM bookings WHERE id=? AND business_id=?
BookingOfBusiness(bk, id, b) == id \in 1 .. Len(bk) /\ bk[id].business_id = b

\* SELECT * FROM bookings WHERE id=? AND client_id=?
BookingOfClient(bk, id, c) == id \in 1 .. Len(bk) /\ bk[id].client_id = c

\* UPDATE availability SET status=? WHERE id=?
SetSlotStatus(av, id, st) ==
    IF id \in 1 .. Len(av) THEN [av EXCEPT ![id].status = st] ELSE av

\* The row INSERT INTO bookings writes; status and cancellation_charge take
\* their column defaults.
NewBooking(c, b, sid, slot, d, price, commission, code) ==
    [client_id |-> c, business_id |-> b, service_id |-> sid,
     availability_id |-> slot, date |-> d, price |-> price,
     commission_amount |-> commission, status |-> "pending",
     cancellation_charge |-> 0, confirmation_code |-> code]

\* What the handler that ran last answered: the operation, the subject of
\* the token (type and id), the row it named and the outcome.
Resp(op, utype, uid, id, res) ==
    [op |-> op, utype |-> utype, uid |-> uid, id |-> id, res |-> res]

\* ------------------------------------------------------------------- Init
\* The services table once business 1 and business 2 have each registered
\* a service (POST /api/businesses/me/services): service 1 at 40.00 and
\* service 2 at 0.052.
Catalog ==
    << [business_id |-> 1, price |-> 40000, active |-> 1],
       [business_id |-> 2, price |-> 52, active |-> 1] >>

\* The empty database with businesses 1 and 2 and their catalog registered
\* (rating REAL DEFAULT 0, total_reviews INTEGER DEFAULT 0).
Init ==
    /\ availability = <<>>
    /\ services = Catalog
    /\ bookings = <<>>
    /\ now = 0
    /\ reqs = [p \in Procs |-> Idle]
    /\ last = Resp("init", "none", 0, 0, "ok")
    /\ reviews = <<>>
    /\ businesses = [b \in BusinessIds |-> [rating |-> 0, total_reviews |-> 0]]

\* ------------------------------------------------- catalog and slot ledger
\* COALESCE(?, column)
Coalesce(v, old) == IF v = NULL THEN old ELSE v

\* A service edit that also rewrites the price of the bookings made
\* against the service.
UpdateService_Retroactive(utype, uid, sid, price, active) ==
    /\ utype = "business"
    /\ services' =
          IF sid \in 1 .. Len(services) /\ services[sid].business_id = uid
          THEN [services EXCEPT
                   ![sid].price = Coalesce(price, @),
                   ![sid].active = Coalesce(active, @)]
          ELSE services
    /\ bookings' =
          [i \in 1 .. Len(bookings) |->
              IF bookings[i].service_id = sid /\ bookings[i].business_id = uid
              THEN [bookings[i] EXCEPT !.price = Coalesce(price, @)]
              ELSE bookings[i]]
    /\ last' = Resp("update_service", utype, uid, sid, "ok")
    /\ UNCHANGED <<availability, now, reqs, reviews, businesses>>

\* PUT /api/businesses/me/services/:id
UpdateService(utype, uid, sid, price, active) ==
    /\ IF utype # "business"
       THEN /\ last' = Resp("update_service", utype, uid, sid, "Forbidden")
            /\ UNCHANGED services
       ELSE /\ services' =
                 IF sid \in 1 .. Len(services) /\ services[sid].business_id = uid
                 THEN [services EXCEPT
                          ![sid].price = Coalesce(price, @),
                          ![sid].active = Coalesce(active, @)]
                 ELSE services
            /\ last' = Resp("update_service", utype, uid, sid, "ok")
    /\ UNCHANGED <<availability, bookings, now, reqs, reviews, businesses>>

\* POST /api/businesses/me/availability
UpsertMany(utype, uid, slots) ==
    /\ IF utype # "business"
       THEN /\ last' = Resp("upsert_many", utype, uid, 0, "Forbidden")
            /\ UNCHANGED availability
       ELSE /\ availability' = UpsertAll(availability, uid, slots)
            /\ last' = Resp("upsert_many", utype, uid, Len(slots), "ok")
    /\ UNCHANGED <<services, bookings, now, reqs, reviews, businesses>>

\* ---------------------------------------------------------- booking engine
\* POST /api/bookings up to db.transaction: the three SELECTs, the commission
\* and the confirmation code (code is the candidate the while loop ends on).
CreateRead(av, sv, bk, c, b, sid, d, code) ==
    LET slot == AvailableSlot(av, b, d)
        svc  == ActiveService(sv, sid, b)
    IN  IF slot = 0 THEN [busy |-> FALSE, res |-> "SlotUnavailable"]
        ELSE IF svc = 0 THEN [busy |-> FALSE, res |-> "ServiceNotFound"]
        ELSE [busy |-> TRUE, res |-> "ok",
              row |-> NewBooking(c, b, sid, slot, d, sv[svc].price,
                         Commission(sv[svc].price, CommissionRatePct), code)]

\* The bookings table after the transaction of POST /api/bookings: the INSERT
\* fails on UNIQUE(confirmation_code) and the transaction rolls back.
CreateWriteBookings(bk, row) ==
    IF CodeTaken(bk, row.confirmation_code) THEN bk ELSE Append(bk, row)

\* The transaction without its UPDATE availability.
CreateWriteSlots_NoFlip(av, bk, row) == av

\* The availability table after the transaction of POST /api/bookings.
CreateWriteSlots(av, bk, row) ==
    IF CodeTaken(bk, row.confirmation_code) THEN av
    ELSE SetSlotStatus(av, row.availability_id, "booked")

\* POST /api/bookings, run to completion inside one Node process; code is
\* the candidate of genCode on which the while loop ends.
CreateBooking(utype, uid, b, sid, d, code) ==
    /\ IF utype # "client"
       THEN /\ last' = Resp("create_booking", utype, uid, 0, "Forbidden")
            /\ UNCHANGED <<availability, bookings>>
       ELSE LET r == CreateRead(availability, services, bookings,
                                uid, b, sid, d, code) IN
            IF ~r.busy
            THEN /\ last' = Resp("create_booking", utype, uid, 0, r.res)
                 /\ UNCHANGED <<availability, bookings>>
            ELSE /\ ~CodeTaken(bookings, code)
                 /\ Len(bookings) < MaxBookings
                 /\ bookings' = CreateWriteBookings(bookings, r.row)
                 /\ availability' = CreateWriteSlots(availability, bookings, r.row)
                 /\ last' = Resp("create_booking", utype, uid,
                                 Len(bookings) + 1, "ok")
    /\ UNCHANGED <<services, now, reqs, reviews, businesses>>

\* The update that also clears the charge of the booking.
ConfirmBookings_ClearsCharge(bk, id) ==
    [bk EXCEPT ![id].status = "confirmed", ![id].cancellation_charge = 0]

\* UPDATE bookings SET status='confirmed' WHERE id=?
ConfirmBookings(bk, id) == [bk EXCEPT ![id].status = "confirmed"]

\* PUT /api/bookings/:id/confirm
Confirm(utype, uid, id) ==
    /\ IF utype # "business"
       THEN /\ last' = Resp("confirm", utype, uid, id, "Forbidden")
            /\ UNCHANGED bookings
       ELSE IF ~BookingOfBusiness(bookings, id, uid)
       THEN /\ last' = Resp("confirm", utype, uid, id, "NotFound")
            /\ UNCHANGED bookings
       ELSE /\ bookings' = ConfirmBookings(bookings, id)
            /\ last' = Resp("confirm", utype, uid, id, "ok")
    /\ UNCHANGED <<availability, services, now, reqs, reviews, businesses>>

\* UPDATE bookings SET status='cancelled' WHERE id=?
RejectBookings(bk, id) == [bk EXCEPT ![id].status = "cancelled"]

\* PUT /api/bookings/:id/reject
Reject(utype, uid, id) ==
    /\ IF utype # "business"
       THEN /\ last' = Resp("reject", utype, uid, id, "Forbidden")
            /\ UNCHANGED <<availability, bookings>>
       ELSE IF ~BookingOfBusiness(bookings, id, uid)
       THEN /\ last' = Resp("reject", utype, uid, id, "NotFound")
            /\ UNCHANGED <<availability, bookings>>
       ELSE /\ availability' = SetSlotStatus(availability,
                                   bookings[id].availability_id, "available")
            /\ bookings' = RejectBookings(bookings, id)
            /\ last' = Resp("reject", utype, uid, id, "ok")
    /\ UNCHANGED <<services, now, reqs, reviews, businesses>>

\* The handler without its status guard.
AlreadyCancelled_Unchecked(bk, id) == FALSE

\* if (booking.status === 'cancelled') return res.status(400)
AlreadyCancelled(bk, id) == bk[id].status = "cancelled"

\* The bookings table after the transaction of PUT /api/bookings/:id/cancel.
CancelBookings(bk, id, charge) ==
    [bk EXCEPT ![id].status = "cancelled", ![id].cancellation_charge = charge]

\* The transaction without its UPDATE availability.
CancelSlots_NeverRelease(av, slot, charge) == av

\* The availability table after the transaction of PUT /api/bookings/:id/cancel.
CancelSlots(av, slot, charge) ==
    IF charge = 0 THEN SetSlotStatus(av, slot, "available") ELSE av

\* PUT /api/bookings/:id/cancel
Cancel(utype, uid, id) ==
    /\ IF utype # "client"
       THEN /\ last' = Resp("cancel", utype, uid, id, "Forbidden")
            /\ UNCHANGED <<availability, bookings>>
       ELSE IF ~BookingOfClient(bookings, id, uid)
       THEN /\ last' = Resp("cancel", utype, uid, id, "NotFound")
            /\ UNCHANGED <<availability, bookings>>
       ELSE IF AlreadyCancelled(bookings, id)
       THEN /\ last' = Resp("cancel", utype, uid, id, "AlreadyCancelled")
            /\ UNCHANGED <<availability, bookings>>
       ELSE LET charge == CancelCharge(bookings[id].price, bookings[id].date, now)
            IN  /\ bookings' = CancelBookings(bookings, id, charge)
                /\ availability' = CancelSlots(availability,
                                       bookings[id].availability_id, charge)
                /\ last' = Resp("cancel", utype, uid, id, "ok")
    /\ UNCHANGED <<services, now, reqs, reviews, businesses>>

\* ---------------------------------------------------------------- reviews
\* Number.prototype.toFixed(1) of n / scale, n >= 0, as tenths.
ToFixed1(n, scale) == (2 * n + scale) \div (2 * scale)

\* !rating || rating < 1 || rating > 5 (r in tenths, NULL when missing)
InvalidRating(r) == r = NULL \/ r = 0 \/ r < 10 \/ r > 50

\* The lookup that ignores the status of the booking.
NotCompleted_OwnerOnly(bk, id, c) == ~BookingOfClient(bk, id, c)

\* !booking || booking.status !== 'completed', booking being
\* SELECT * FROM bookings WHERE id=? AND client_id=?
NotCompleted(bk, id, c) ==
    ~BookingOfClient(bk, id, c) \/ bk[id].status # "completed"

\* The handler without its duplicate check.
HasReview_Unchecked(rv, id) == FALSE

\* SELECT id FROM reviews WHERE booking_id=?
HasReview(rv, id) == \E i \in 1 .. Len(rv) : rv[i].booking_id = id

\* SELECT COUNT(*) FROM reviews WHERE business_id=?
CountReviews(rv, b) == Cardinality({i \in 1 .. Len(rv) : rv[i].business_id = b})

\* The sum AVG(rating) divides, over the reviews WHERE business_id=?
RECURSIVE SumRatings(_, _)
SumRatings(rv, b) ==
    IF rv = <<>> THEN 0
    ELSE (IF Head(rv).business_id = b THEN Head(rv).rating ELSE 0)
         + SumRatings(Tail(rv), b)

\* The UPDATE without its WHERE id=?: every business takes the aggregate.
Recompute_AllBusinesses(bz, rv, b) ==
    [x \in DOMAIN bz |->
        [rating |-> ToFixed1(SumRatings(rv, b), CountReviews(rv, b)),
         total_reviews |-> CountReviews(rv, b)]]

\* The aggregate that keeps the rating of the newest review.
Recompute_LastOnly(bz, rv, b) ==
    [bz EXCEPT ![b] = [rating |-> rv[Len(rv)].rating,
                       total_reviews |-> CountReviews(rv, b)]]

\* SELECT AVG(rating) as avg, COUNT(*) as total FROM reviews WHERE business_id=?
\* UPDATE businesses SET rating=avg.toFixed(1), total_reviews=total WHERE id=?
Recompute(bz, rv, b) ==
    [bz EXCEPT ![b] = [rating |-> ToFixed1(SumRatings(rv, b), CountReviews(rv, b)),
                       total_reviews |-> CountReviews(rv, b)]]

\* POST /api/bookings/:id/review
AttachReview(utype, uid, id, rating) ==
    /\ IF utype # "client"
       THEN /\ last' = Resp("attach_review", utype, uid, id, "Forbidden")
            /\ UNCHANGED <<reviews, businesses>>
       ELSE IF InvalidRating(rating)
       THEN /\ last' = Resp("attach_review", utype, uid, id, "InvalidRating")
            /\ UNCHANGED <<reviews, businesses>>
       ELSE IF NotCompleted(bookings, id, uid)
       THEN /\ last' = Resp("attach_review", utype, uid, id, "InvalidState")
            /\ UNCHANGED <<reviews, businesses>>
       ELSE IF HasReview(reviews, id)
       THEN /\ last' = Resp("attach_review", utype, uid, id, "DuplicateReview")
            /\ UNCHANGED <<reviews, businesses>>
       ELSE LET b  == bookings[id].business_id
                rv == Append(reviews, [booking_id |-> id, client_id |-> uid,
                                       business_id |-> b, rating |-> rating])
            IN  /\ reviews' = rv
                /\ businesses' = Recompute(businesses, rv, b)
                /\ last' = Resp("attach_review", utype, uid, id, "ok")
    /\ UNCHANGED <<availability, services, bookings, now, reqs>>

\* The out-of-core completion (a separate process or a manual transition)
\* of a confirmed booking.
Complete(id) ==
    /\ id \in 1 .. Len(bookings)
    /\ bookings[id].status = "confirmed"
    /\ bookings' = [bookings EXCEPT ![id].status = "completed"]
    /\ last' = Resp("complete", "none", 0, id, "ok")
    /\ UNCHANGED <<availability, services, now, reqs, reviews, businesses>>

\* Time passes between two requests.
Tick ==
    /\ \E t \in Instants : t > now /\ now' = t
    /\ last' = Resp("tick", "none", 0, 0, "ok")
    /\ UNCHANGED <<availability, services, bookings, reqs, reviews, businesses>>

\* --------------------------------- several server processes on one database
\* POST /api/bookings in process p, up to db.transaction.
BeginCreate(p, uid, b, sid, d, code) ==
    /\ ~reqs[p].busy
    /\ LET r == CreateRead(availability, services, bookings,
                           uid, b, sid, d, code) IN
         /\ r.busy => ~CodeTaken(bookings, code)
         /\ reqs' = [reqs EXCEPT ![p] = IF r.busy THEN r ELSE Idle]
         /\ last' = Resp("create_booking", "client", uid, 0,
                         IF r.busy THEN "reading" ELSE r.res)
    /\ UNCHANGED <<availability, services, bookings, now, reviews, businesses>>

\* POST /api/bookings in process p: the transaction and the response.
CommitCreate(p) ==
    /\ reqs[p].busy
    /\ reqs[p].res \in {"ok", "regenerated"}
    /\ Len(bookings) < MaxBookings
    /\ bookings' = CreateWriteBookings(bookings, reqs[p].row)
    /\ availability' = CreateWriteSlots(availability, bookings, reqs[p].row)
    /\ last' = IF CodeTaken(bookings, reqs[p].row.confirmation_code)
               THEN Resp("create_booking", "client", reqs[p].row.client_id, 0,
                         "ConstraintError")
               ELSE Resp("create_booking", "client", reqs[p].row.client_id,
                         Len(bookings) + 1, "ok")
    /\ reqs' = [reqs EXCEPT ![p] = Idle]
    /\ UNCHANGED <<services, now, reviews, businesses>>

\* ------------------------------------------ the handlers statement by statement
\* POST /api/bookings in process p up to the first genCode(): code is the
\* candidate it returns, taken or not.
DrawCode(p, uid, b, sid, d, code) ==
    /\ ~reqs[p].busy
    /\ LET r == CreateRead(availability, services, bookings,
                           uid, b, sid, d, code) IN
         /\ reqs' = [reqs EXCEPT ![p] = IF r.busy THEN r ELSE Idle]
         /\ last' = Resp("create_booking", "client", uid, 0,
                         IF r.busy THEN "reading" ELSE r.res)
    /\ UNCHANGED <<availability, services, bookings, now, reviews, businesses>>

\* One turn of while (SELECT id FROM bookings WHERE confirmation_code=?)
\* code = genCode(): the candidate is taken and code replaces it.
Redraw(p, code) ==
    /\ reqs[p].busy
    /\ reqs[p].res \in {"ok", "regenerated"}
    /\ CodeTaken(bookings, reqs[p].row.confirmation_code)
    /\ reqs' = [reqs EXCEPT ![p].row.confirmation_code = code,
                            ![p].res = "regenerated"]
    /\ UNCHANGED <<availability, services, bookings, now, last, reviews, businesses>>

\* The while loop ends on a candidate no booking carries, and the
\* transaction runs.
EndLoop(p) ==
    /\ reqs[p].busy
    /\ reqs[p].res \in {"ok", "regenerated"}
    /\ ~CodeTaken(bookings, reqs[p].row.confirmation_code)
    /\ CommitCreate(p)

\* PUT /api/bookings/:id/reject in process p up to and including its first
\* statement that writes, UPDATE availability, which commits on its own (the
\* handler opens no transaction).
BeginReject(p, utype, uid, id) ==
    /\ ~reqs[p].busy
    /\ IF utype # "business"
       THEN /\ last' = Resp("reject", utype, uid, id, "Forbidden")
            /\ UNCHANGED <<availability, reqs>>
       ELSE IF ~BookingOfBusiness(bookings, id, uid)
       THEN /\ last' = Resp("reject", utype, uid, id, "NotFound")
            /\ UNCHANGED <<availability, reqs>>
       ELSE /\ availability' = SetSlotStatus(availability,
                                   bookings[id].availability_id, "available")
            /\ reqs' = [reqs EXCEPT ![p] =
                          [busy |-> TRUE, res |-> "rejecting", uid |-> uid, id |-> id]]
            /\ last' = Resp("reject", utype, uid, id, "writing")
    /\ UNCHANGED <<services, bookings, now, reviews, businesses>>

\* PUT /api/bookings/:id/reject in process p: UPDATE bookings and the
\* response.
FinishReject(p) ==
    /\ reqs[p].busy
    /\ reqs[p].res = "rejecting"
    /\ bookings' = RejectBookings(bookings, reqs[p].id)
    /\ last' = Resp("reject", "business", reqs[p].uid, reqs[p].id, "ok")
    /\ reqs' = [reqs EXCEPT ![p] = Idle]
    /\ UNCHANGED <<availability, services, now, reviews, businesses>>

\* PUT /api/bookings/:id/reject in process p: the run() of UPDATE bookings
\* throws (the database is locked or full) or the process stops before it;
\* the request ends without the second write.
FailReject(p) ==
    /\ reqs[p].busy
    /\ reqs[p].res = "rejecting"
    /\ last' = Resp("reject", "business", reqs[p].uid, reqs[p].id, "InternalError")
    /\ reqs' = [reqs EXCEPT ![p] = Idle]
    /\ UNCHANGED <<availability, services, bookings, now, reviews, businesses>>

\* ------------------------------------------------------------ specifications
\* The request bodies of POST /api/businesses/me/availability.
SlotLists(statuses) ==
    UNION {[1 .. n -> [date : SlotDates, status : statuses]] : n \in 0 .. MaxEntries}

\* The request bodies whose entries name the dates given.
SlotListsOn(dates, statuses) ==
    UNION {[1 .. n -> [date : dates, status : statuses]] : n \in 0 .. MaxEntries}

\* The status strings a schedule edit sends (none, the two of the ledger and
\* a foreign one).
LedgerStatuses == {NoStatus, "available", "booked", "blocked"}

\* The candidates genCode ends on when codes are named in the order of their
\* first use: a code some booking carries, or the next unused one.
NextCodes == 1 .. Len(bookings) + 1

\* Spec: the booking lifecycle of business 1 with two clients, inside one
\* Node process.
Next ==
    \/ \E a \in {0, 1} : UpdateService("business", 1, 1, NULL, a)
    \/ \E sl \in SlotLists({NoStatus, "booked"}) : UpsertMany("business", 1, sl)
    \/ \E u \in {1, 2}, sid \in ServiceIds, d \in SlotDates, code \in NextCodes :
          CreateBooking("client", u, 1, sid, d, code)
    \/ \E id \in BookingIds : Confirm("business", 1, id)
    \/ \E id \in BookingIds : Reject("business", 1, id)
    \/ \E u \in {1, 2}, id \in BookingIds : Cancel("client", u, id)
    \/ \E id \in BookingIds : Complete(id)
    \/ Tick

Spec == Init /\ [][Next]_vars

\* SpecMoney: prices, commissions and cancellation charges of business 1 and
\* client 1 while the business edits its service.
NextMoney ==
    \/ \E pr \in {NULL, 0, 52, 40000}, a \in {NULL, 0, 1} :
          UpdateService("business", 1, 1, pr, a)
    \/ \E sl \in SlotLists({NoStatus}) : UpsertMany("business", 1, sl)
    \/ \E sid \in ServiceIds, d \in SlotDates, code \in NextCodes :
          CreateBooking("client", 1, 1, sid, d, code)
    \/ \E id \in BookingIds : Confirm("business", 1, id)
    \/ \E id \in BookingIds : Reject("business", 1, id)
    \/ \E id \in BookingIds : Cancel("client", 1, id)
    \/ Tick

SpecMoney == Init /\ [][NextMoney]_vars

\* SpecConc: two server processes on the same database file, each handling
\* a POST /api/bookings.
NextConc ==
    \/ \E sid \in ServiceIds, a \in {0, 1} :
          UpdateService("business", 1, sid, NULL, a)
    \/ \E sl \in SlotLists({NoStatus}) : UpsertMany("business", 1, sl)
    \/ \E p \in Procs, u \in {1, 2}, sid \in ServiceIds, d \in SlotDates,
          code \in Codes : BeginCreate(p, u, 1, sid, d, code)
    \/ \E p \in Procs : CommitCreate(p)

SpecConc == Init /\ [][NextConc]_vars

\* SpecLedger: the slot ledger of business 1 under schedule edits with every
\* status string, bookings of client 1 and their releases.
NextLedger ==
    \/ \E sl \in SlotListsOn(SlotDates, LedgerStatuses) : UpsertMany("business", 1, sl)
    \/ \E d \in SlotDates, code \in NextCodes :
          CreateBooking("client", 1, 1, 1, d, code)
    \/ \E id \in BookingIds : Reject("business", 1, id)
    \/ \E id \in BookingIds : Cancel("client", 1, id)
    \/ Tick

SpecLedger == Init /\ [][NextLedger]_vars

\* The rating values a review request carries, in tenths: none, 0, 2.5, 3,
\* 5 and 6.
Ratings == {NULL, 0, 25, 30, 50, 60}

\* SpecReview: the lifecycle of the bookings of client 1 with business 1 on
\* one date, and the reviews clients 1 and 2 send for them.
NextReview ==
    \/ \E sl \in SlotLists({NoStatus}) : UpsertMany("business", 1, sl)
    \/ \E d \in SlotDates, code \in NextCodes :
          CreateBooking("client", 1, 1, 1, d, code)
    \/ \E id \in BookingIds : Confirm("business", 1, id)
    \/ \E id \in BookingIds : Reject("business", 1, id)
    \/ \E id \in BookingIds : Complete(id)
    \/ \E u \in ClientIds, id \in BookingIds, r \in {0, 30} :
          AttachReview("client", u, id, r)

SpecReview == Init /\ [][NextReview]_vars

\* SpecRating: bookings of client 1 with business 1 over two dates, their
\* completion, the reviews of client 1 and the rating of business 1.
NextRating ==
    \/ \E sl \in SlotListsOn(TwoDates, {NoStatus}) : UpsertMany("business", 1, sl)
    \/ \E d \in TwoDates, code \in NextCodes :
          CreateBooking("client", 1, 1, 1, d, code)
    \/ \E id \in BookingIds : Confirm("business", 1, id)
    \/ \E id \in BookingIds : Complete(id)
    \/ \E id \in BookingIds, r \in Ratings : AttachReview("client", 1, id, r)

SpecRating == Init /\ [][NextRating]_vars

\* SpecCode: one Node process, POST /api/bookings taken one statement at a
\* time (no other handler runs while it is in flight), genCode drawing from
\* MaxCodes codes.
NextCode ==
    \/ /\ ~reqs[1].busy
       /\ \E sl \in SlotListsOn(TwoDates, {NoStatus}) : UpsertMany("business", 1, sl)
    \/ \E u \in ClientIds, sid \in ServiceIds, d \in TwoDates, code \in Codes :
          DrawCode(1, u, 1, sid, d, code)
    \/ \E code \in Codes : Redraw(1, code)
    \/ EndLoop(1)

SpecCode == Init /\ [][NextCode]_vars

\* SpecAuth: the booking handlers called by every subject: clients 1 and 2
\* and businesses 1 and 2, on the bookings of business 1.
NextAuth ==
    \/ \E sl \in SlotLists({NoStatus}) : UpsertMany("business", 1, sl)
    \/ \E t \in UserTypes, u \in ClientIds, d \in SlotDates, code \in NextCodes :
          CreateBooking(t, u, 1, 1, d, code)
    \/ \E t \in UserTypes, u \in BusinessIds, id \in BookingIds : Confirm(t, u, id)
    \/ \E t \in UserTypes, u \in BusinessIds, id \in BookingIds : Reject(t, u, id)
    \/ \E t \in UserTypes, u \in ClientIds, id \in BookingIds : Cancel(t, u, id)

SpecAuth == Init /\ [][NextAuth]_vars

\* SpecFail: one Node process whose reject is taken one write at a time and
\* may fail between its two writes; no other handler runs while it is in
\* flight.
NextFail ==
    \/ /\ ~reqs[1].busy
       /\ \E sl \in SlotLists({NoStatus}) : UpsertMany("business", 1, sl)
    \/ /\ ~reqs[1].busy
       /\ \E u \in ClientIds, d \in SlotDates, code \in NextCodes :
             CreateBooking("client", u, 1, 1, d, code)
    \/ /\ ~reqs[1].busy
       /\ \E id \in BookingIds : Confirm("business", 1, id)
    \/ \E u \in BusinessIds, id \in BookingIds : BeginReject(1, "business", u, id)
    \/ FinishReject(1)
    \/ FailReject(1)

SpecFail == Init /\ [][NextFail]_vars

\* SpecLoop: SpecCode on one date whose slot the business releases by
\* reject, so that bookings accumulate on it.  Math.random is fair: a code
\* that genCode can return is returned in the end by a loop that keeps
\* drawing, and a handler that can go on does.
NextLoop ==
    \/ /\ ~reqs[1].busy
       /\ \E sl \in SlotLists({NoStatus}) : UpsertMany("business", 1, sl)
    \/ /\ ~reqs[1].busy
       /\ \E id \in BookingIds : Reject("business", 1, id)
    \/ \E u \in ClientIds, d \in SlotDates, code \in Codes : DrawCode(1, u, 1, 1, d, code)
    \/ \E code \in Codes : Redraw(1, code)
    \/ EndLoop(1)

SpecLoop ==
    /\ Init
    /\ [][NextLoop]_vars
    /\ WF_vars(EndLoop(1))
    /\ \A code \in Codes : SF_vars(Redraw(1, code))

\* The request bodies of one entry that names no status.
OneSlot == {<< [date |-> d, status |-> NoStatus] >> : d \in SlotDates}

\* SpecFrame: businesses 1 and 2, each with its slot and its service, the
\* bookings client 1 makes with either (each under the next unused code),
\* their lifecycle driven by the business that owns them, the review
\* client 1 gives (3 to business 1, 5 to business 2) and the review client 2
\* tries to give.  A service edit saves the service with the values it has.
NextFrame ==
    \/ \E b \in BusinessIds :
          UpdateService("business", b, b, Catalog[b].price, 1)
    \/ \E b \in BusinessIds, sl \in OneSlot : UpsertMany("business", b, sl)
    \/ \E b \in BusinessIds, d \in SlotDates :
          CreateBooking("client", 1, b, b, d, Len(bookings) + 1)
    \/ \E id \in 1 .. Len(bookings) : Confirm("business", bookings[id].business_id, id)
    \/ \E id \in 1 .. Len(bookings) : Reject("business", bookings[id].business_id, id)
    \/ \E id \in 1 .. Len(bookings) : Cancel("client", 1, id)
    \/ \E id \in BookingIds : Complete(id)
    \/ \E id \in 1 .. Len(bookings) :
          AttachReview("client", 1, id,
                       IF bookings[id].business_id = 1 THEN 30 ELSE 50)
    \/ \E id \in BookingIds : AttachReview("client", 2, id, 30)

SpecFrame == Init /\ [][NextFrame]_vars

\* ------------------------------------------------------------------ claims
\* The bookings that hold slot s: they name it and are not cancelled.
Holders(s) ==
    {i \in 1 .. Len(bookings) :
        bookings[i].availability_id = s /\ bookings[i].status # "cancelled"}

\* c cents is the amount x / 1000 cents rounded to the nearest cent (either
\* way on a tie).
NearestCent(c, x) == 1000 * c - 500 <= x /\ x <= 1000 * c + 500

\* The response in `last` is the success of operation op.
Did(op) == last.op = op /\ last.res = "ok"

\* C1: no double-booking: in every reachable state every availability slot
\* is referenced by at most one booking whose status is not cancelled.
C1_NoDoubleBooking ==
    \A s \in 1 .. Len(availability) : Cardinality(Holders(s)) <= 1

\* C2: of two concurrent create_booking calls by different clients against
\* the same available slot at most one inserts a booking: while nothing
\* releases a slot, no two bookings of different clients name the same slot.
C2_OneWinner ==
    \A i, j \in 1 .. Len(bookings) :
        bookings[i].client_id # bookings[j].client_id
            => bookings[i].availability_id # bookings[j].availability_id

\* C3: cancelled is terminal: no step changes the status of a cancelled
\* booking.
C3_CancelledIsTerminal ==
    [][\A id \in 1 .. Len(bookings) :
          bookings[id].status = "cancelled" => bookings'[id].status = "cancelled"]_vars

\* C4: completed is terminal: no step changes the status of a completed
\* booking, and a successful client cancel starts from pending or confirmed.
C4_CompletedIsTerminal ==
    [][/\ \A id \in 1 .. Len(bookings) :
            bookings[id].status = "completed" => bookings'[id].status = "completed"
       /\ (last'.op = "cancel" /\ last'.res = "ok")
            => bookings[last'.id].status \in {"pending", "confirmed"}]_vars

\* C5: after a successful reject the slot is available, the booking is
\* cancelled and its cancellation_charge is 0, whatever state it was in.
C5_RejectReleasesWithoutCharge ==
    Did("reject") =>
        /\ availability[bookings[last.id].availability_id].status = "available"
        /\ bookings[last.id].status = "cancelled"
        /\ bookings[last.id].cancellation_charge = 0

\* C6: a cancel by the owning client of a booking that is already cancelled
\* answers AlreadyCancelled and changes neither the bookings nor the slots.
C6_SecondCancelRefused ==
    [][(/\ last'.op = "cancel"
        /\ last'.utype = "client"
        /\ BookingOfClient(bookings, last'.id, last'.uid)
        /\ bookings[last'.id].status = "cancelled")
       => /\ last'.res = "AlreadyCancelled"
          /\ bookings' = bookings
          /\ availability' = availability]_vars

\* C6 witness: a cancel was refused on a booking cancelled earlier with a
\* charge.
C6_Witness ==
    /\ last.op = "cancel"
    /\ last.res = "AlreadyCancelled"
    /\ bookings[last.id].status = "cancelled"
    /\ bookings[last.id].cancellation_charge > 0

\* The minutes from now to the appointment of booking id.
MinutesLeft(id) == bookings[id].date - now

\* C7: a successful cancel leaves the booking cancelled, with charge 0 when
\* at least 24 hours remain and half the booking's price rounded to the cent
\* when less than 24 hours remain.
C7_CancelCharge ==
    Did("cancel") =>
        /\ bookings[last.id].status = "cancelled"
        /\ MinutesLeft(last.id) >= 24 * 60
             => bookings[last.id].cancellation_charge = 0
        /\ MinutesLeft(last.id) < 24 * 60
             => NearestCent(bookings[last.id].cancellation_charge,
                            bookings[last.id].price * 50)

\* C7 witness: a cancel at 23h59m charged 0.03 for a price of 0.052.
C7_Witness ==
    /\ Did("cancel")
    /\ MinutesLeft(last.id) = 24 * 60 - 1
    /\ bookings[last.id].price = 52
    /\ bookings[last.id].cancellation_charge = 3

\* C8: a successful cancel releases the slot if and only if at least 24
\* hours remain, for every price.
C8_ReleaseIffEarly ==
    Did("cancel") =>
        (availability[bookings[last.id].availability_id].status = "available"
            <=> MinutesLeft(last.id) >= 24 * 60)

\* C9: a booking is created with the service's price and with that price
\* times the commission rate rounded to the cent (40.00 x 0.15 gives 6.00),
\* and no step changes the commission_amount of a booking.
C9_Commission ==
    [][/\ \A id \in 1 .. Len(bookings) :
            /\ id <= Len(bookings')
            /\ bookings'[id].commission_amount = bookings[id].commission_amount
       /\ Len(bookings') > Len(bookings) =>
            LET b == bookings'[Len(bookings')]
                p == services[b.service_id].price
            IN  /\ b.price = p
                /\ NearestCent(b.commission_amount, p * 15)
                /\ p = 40000 => b.commission_amount = 600]_vars

\* C9 witness: a booking made at 0.052 carries a commission of 0.01 after
\* its service's price was changed again.
C9_Witness ==
    \E id \in 1 .. Len(bookings) :
        /\ bookings[id].price = 52
        /\ bookings[id].commission_amount = 1
        /\ services[bookings[id].service_id].price # 52

\* C10: a service edit leaves the price and commission_amount of every
\* booking unchanged, and a later late cancel charges half of the price the
\* booking carried, whatever the service costs by then.
C10_HistoricalPrice ==
    [][/\ last'.op = "update_service" =>
            /\ Len(bookings') = Len(bookings)
            /\ \A id \in 1 .. Len(bookings) :
                 /\ bookings'[id].price = bookings[id].price
                 /\ bookings'[id].commission_amount = bookings[id].commission_amount
       /\ (last'.op = "cancel" /\ last'.res = "ok" /\ MinutesLeft(last'.id) < 24 * 60)
            => /\ bookings'[last'.id].price = bookings[last'.id].price
               /\ NearestCent(bookings'[last'.id].cancellation_charge,
                              bookings[last'.id].price * 50)]_vars

\* C10 witness: a late cancel charged 20.00 on a booking made at 40.00 whose
\* service has been repriced to 0 and deactivated.
C10_Witness ==
    /\ Did("cancel")
    /\ bookings[last.id].price = 40000
    /\ bookings[last.id].cancellation_charge = 2000
    /\ services[bookings[last.id].service_id].price = 0
    /\ services[bookings[last.id].service_id].active = 0

\* C11: create_booking is all-or-nothing: a success adds exactly one booking,
\* pending with cancellation_charge 0, and leaves its slot (the one at the
\* booking's business and date) booked and every other row as it was; a
\* failure with SlotUnavailable or ServiceNotFound changes no booking and no
\* slot.
C11_CreateAllOrNothing ==
    [][last'.op = "create_booking" =>
         /\ last'.res = "ok" =>
              /\ Len(bookings') = Len(bookings) + 1
              /\ \A i \in 1 .. Len(bookings) : bookings'[i] = bookings[i]
              /\ LET nb == bookings'[Len(bookings')] IN
                   /\ last'.id = Len(bookings')
                   /\ nb.status = "pending"
                   /\ nb.cancellation_charge = 0
                   /\ nb.availability_id \in 1 .. Len(availability)
                   /\ availability[nb.availability_id].business_id = nb.business_id
                   /\ availability[nb.availability_id].date = nb.date
                   /\ availability[nb.availability_id].status = "available"
                   /\ Len(availability') = Len(availability)
                   /\ \A j \in 1 .. Len(availability) :
                        availability'[j] =
                          IF j = nb.availability_id
                          THEN [availability[j] EXCEPT !.status = "booked"]
                          ELSE availability[j]
         /\ last'.res # "ok" =>
              /\ last'.res \in {"SlotUnavailable", "ServiceNotFound"}
              /\ bookings' = bookings
              /\ availability' = availability]_vars

\* C11 witness: a second booking was created on a slot that had been
\* released, and the slot is booked again.
C11_Witness ==
    /\ Did("create_booking")
    /\ last.id = 2
    /\ bookings[2].status = "pending"
    /\ bookings[2].availability_id = bookings[1].availability_id
    /\ availability[bookings[2].availability_id].status = "booked"

\* Business b has a slot at date d whose status is available.
HasAvailableSlot(b, d) ==
    \E i \in 1 .. Len(availability) :
        /\ availability[i].business_id = b
        /\ availability[i].date = d
        /\ availability[i].status = "available"

\* Service sid is missing, inactive or owned by a business other than b.
ForeignOrInactive(sid, b) ==
    \/ sid \notin 1 .. Len(services)
    \/ services[sid].active # 1
    \/ services[sid].business_id # b

\* The code of the request answered in the next state: the one of the row
\* it inserted, any (the first) when it inserted none.
CodeOfStep ==
    IF Len(bookings') > Len(bookings)
    THEN bookings'[Len(bookings')].confirmation_code
    ELSE 1

\* C12: a create_booking of a client for business 1 fails with
\* SlotUnavailable when business 1 has no slot at the date or the slot there
\* is not available, and (the slot being available) with ServiceNotFound when
\* the service is inactive or belongs to another business; it never succeeds
\* on such a service.
C12_CreateFailures ==
    [][last'.op = "create_booking" =>
         \A sid \in ServiceIds, d \in SlotDates :
            CreateBooking("client", last'.uid, 1, sid, d, CodeOfStep) =>
               /\ ~HasAvailableSlot(1, d) => last'.res = "SlotUnavailable"
               /\ (HasAvailableSlot(1, d) /\ ForeignOrInactive(sid, 1))
                    => last'.res = "ServiceNotFound"
               /\ ForeignOrInactive(sid, 1) => last'.res # "ok"
               /\ (HasAvailableSlot(1, d) /\ ~ForeignOrInactive(sid, 1))
                    => last'.res = "ok"]_vars

\* C12 witness: a create_booking was refused with ServiceNotFound while the
\* slot is available and the service of business 1 is inactive.
C12_Witness ==
    /\ last.op = "create_booking"
    /\ last.res = "ServiceNotFound"
    /\ \E d \in SlotDates : HasAvailableSlot(1, d)
    /\ services[1].active = 0

\* The entries of the request sl that name date d.
EntriesFor(sl, d) == {k \in 1 .. Len(sl) : sl[k].date = d}

\* The status the entries of sl for date d leave on a slot that was not
\* booked, applied in order: booked once an entry asks for it (the entries
\* after it find the slot booked), else what the last entry asks for.
Requested(sl, d) ==
    LET E == EntriesFor(sl, d)
        m == CHOOSE k \in E : \A j \in E : j <= k
    IN  IF \E k \in E : sl[k].status = "booked" THEN "booked"
        ELSE IF sl[m].status = NoStatus THEN "available"
        ELSE sl[m].status

\* C13: a schedule edit of business 1 leaves every slot that is booked as it
\* was, whatever the entries request; it keeps the existing rows in place,
\* creates one slot for every date without one, and gives every slot that
\* was absent or not booked the status its entries request.
C13_UpsertProtectsBooked ==
    [][\A sl \in SlotListsOn(SlotDates, LedgerStatuses) :
         (last'.op = "upsert_many" /\ last'.id = Len(sl)
            /\ UpsertMany("business", 1, sl)) =>
            /\ Len(availability') >= Len(availability)
            /\ \A i \in 1 .. Len(availability) :
                 /\ availability'[i].business_id = availability[i].business_id
                 /\ availability'[i].date = availability[i].date
                 /\ availability[i].status = "booked"
                      => availability'[i].status = "booked"
            /\ \A d \in SlotDates :
                 EntriesFor(sl, d) # {} =>
                    /\ Cardinality({i \in 1 .. Len(availability') :
                          /\ availability'[i].business_id = 1
                          /\ availability'[i].date = d}) = 1
                    /\ \A i \in 1 .. Len(availability') :
                         (/\ availability'[i].business_id = 1
                          /\ availability'[i].date = d
                          /\ (i > Len(availability) \/ availability[i].status # "booked"))
                         => availability'[i].status = Requested(sl, d)
            /\ \A i \in 1 .. Len(availability') :
                 EntriesFor(sl, availability'[i].date) = {} =>
                    /\ i <= Len(availability)
                    /\ availability'[i] = availability[i]]_vars

\* C13 witness: a schedule edit with an entry for the date of a slot that a
\* pending booking holds has run, and the slot is still booked.
C13_Witness ==
    /\ Did("upsert_many")
    /\ last.id >= 1
    /\ \E i \in 1 .. Len(availability) :
         /\ availability[i].status = "booked"
         /\ \E id \in Holders(i) : bookings[id].status = "pending"

\* C14: an attach_review by a client on a booking that is not theirs (or
\* does not exist) or whose status is pending, confirmed or cancelled is
\* refused, with InvalidState when the rating passes the rating check, and
\* changes neither the reviews nor any business; and whenever a review is
\* inserted its booking has status completed.
C14_ReviewNeedsCompleted ==
    [][/\ last'.op = "attach_review" =>
            \A r \in Ratings :
               AttachReview("client", last'.uid, last'.id, r) =>
                  ((\/ last'.id \notin 1 .. Len(bookings)
                    \/ bookings[last'.id].client_id # last'.uid
                    \/ bookings[last'.id].status \in {"pending", "confirmed", "cancelled"})
                   => /\ last'.res \in {"InvalidState", "InvalidRating"}
                      /\ (r # NULL /\ r >= 10 /\ r <= 50) => last'.res = "InvalidState"
                      /\ reviews' = reviews
                      /\ businesses' = businesses)
       /\ Len(reviews') > Len(reviews) =>
            /\ Len(reviews') = Len(reviews) + 1
            /\ bookings[reviews'[Len(reviews')].booking_id].status = "completed"
            /\ bookings[reviews'[Len(reviews')].booking_id].client_id
                  = reviews'[Len(reviews')].client_id]_vars

\* C14 witness: the owner's review of a confirmed booking was refused with
\* InvalidState.
C14_Witness ==
    /\ last.op = "attach_review"
    /\ last.res = "InvalidState"
    /\ last.id \in 1 .. Len(bookings)
    /\ bookings[last.id].client_id = last.uid
    /\ bookings[last.id].status = "confirmed"

\* C15: no booking ever has two reviews, and an attach_review (with a rating
\* that passes the rating check) by the owner of a completed booking that
\* already has a review answers DuplicateReview and leaves the reviews and
\* every business's rating and total_reviews unchanged.
C15_OneReviewPerBooking ==
    [][/\ \A i, j \in 1 .. Len(reviews') :
            reviews'[i].booking_id = reviews'[j].booking_id => i = j
       /\ last'.op = "attach_review" =>
            \A r \in Ratings :
               (/\ AttachReview("client", last'.uid, last'.id, r)
                /\ r # NULL /\ r >= 10 /\ r <= 50
                /\ last'.id \in 1 .. Len(bookings)
                /\ bookings[last'.id].client_id = last'.uid
                /\ bookings[last'.id].status = "completed"
                /\ \E i \in 1 .. Len(reviews) : reviews[i].booking_id = last'.id)
               => /\ last'.res = "DuplicateReview"
                  /\ reviews' = reviews
                  /\ businesses' = businesses]_vars

\* C15 witness: a second review of a completed, reviewed booking was refused
\* with DuplicateReview.
C15_Witness ==
    /\ last.op = "attach_review"
    /\ last.res = "DuplicateReview"
    /\ bookings[last.id].status = "completed"
    /\ \E i \in 1 .. Len(reviews) : reviews[i].booking_id = last.id

\* The reviews of business b.
ReviewsOfBusiness(b) == {i \in 1 .. Len(reviews) : reviews[i].business_id = b}

\* The sum of the ratings of the reviews in S.
RECURSIVE RatingTotal(_)
RatingTotal(S) ==
    IF S = {} THEN 0
    ELSE LET i == CHOOSE k \in S : TRUE
         IN  reviews[i].rating + RatingTotal(S \ {i})

\* r tenths is total / n rounded to the nearest tenth (either way on a tie).
NearestTenth(r, total, n) == 2 * total - n <= 2 * r * n /\ 2 * r * n <= 2 * total + n

\* C16: for every business with at least one review, total_reviews is the
\* number of its reviews and rating is the mean of their ratings rounded to
\* one decimal; ratings 5 then 3 give rating 4.0 and total_reviews 2.
C16_RatingIsMean ==
    \A b \in BusinessIds :
        LET S == ReviewsOfBusiness(b) IN
        S # {} =>
            /\ businesses[b].total_reviews = Cardinality(S)
            /\ NearestTenth(businesses[b].rating, RatingTotal(S), Cardinality(S))
            /\ ([i \in 1 .. Len(reviews) |-> reviews[i].rating] = <<50, 30>> /\ S = {1, 2})
                 => businesses[b].rating = 40 /\ businesses[b].total_reviews = 2

\* C16 witness: ratings 5 then 3 on two completed bookings of business 1 left
\* it with rating 4.0 and total_reviews 2.
C16_Witness ==
    /\ Did("attach_review")
    /\ Len(reviews) = 2
    /\ reviews[1].rating = 50
    /\ reviews[2].rating = 30
    /\ reviews[1].booking_id # reviews[2].booking_id
    /\ businesses[1].rating = 40
    /\ businesses[1].total_reviews = 2

\* C17: every stored review has a whole rating between 1 and 5, and an
\* attach_review by the owner of a completed booking without a review whose
\* rating is anything else (0, 6, 2.5 or none) answers InvalidRating and
\* inserts nothing.
C17_IntegerRating ==
    [][/\ \A i \in 1 .. Len(reviews') : reviews'[i].rating \in {10, 20, 30, 40, 50}
       /\ last'.op = "attach_review" =>
            \A r \in Ratings \ {10, 20, 30, 40, 50} :
               (/\ AttachReview("client", last'.uid, last'.id, r)
                /\ last'.id \in 1 .. Len(bookings)
                /\ bookings[last'.id].client_id = last'.uid
                /\ bookings[last'.id].status = "completed"
                /\ ~\E i \in 1 .. Len(reviews) : reviews[i].booking_id = last'.id)
               => /\ last'.res = "InvalidRating"
                  /\ reviews' = reviews]_vars

\* C18: no two bookings share a confirmation_code: the while loop replaces a
\* candidate that an existing booking carries, and the code inserted is
\* carried by no earlier booking.
C18_UniqueCodes ==
    [][/\ \A i, j \in 1 .. Len(bookings') :
            bookings'[i].confirmation_code = bookings'[j].confirmation_code => i = j
       /\ Len(bookings') > Len(bookings) =>
            \A i \in 1 .. Len(bookings) :
               bookings[i].confirmation_code
                  # bookings'[Len(bookings')].confirmation_code]_vars

\* C18 witness: booking 1 exists and a create_booking in flight, whose first
\* candidate was a code in use, has regenerated it and now holds a code that
\* no booking carries.
C18_Witness ==
    /\ Len(bookings) = 1
    /\ reqs[1].busy
    /\ reqs[1].res = "regenerated"
    /\ \A i \in 1 .. Len(bookings) :
         bookings[i].confirmation_code # reqs[1].row.confirmation_code

\* The request answered in the next state names a booking that does not exist
\* or that belongs to another business than the caller.
NotOfCallingBusiness ==
    \/ last'.id \notin 1 .. Len(bookings)
    \/ bookings[last'.id].business_id # last'.uid

\* The request answered in the next state names a booking that does not exist
\* or that belongs to another client than the caller.
NotOfCallingClient ==
    \/ last'.id \notin 1 .. Len(bookings)
    \/ bookings[last'.id].client_id # last'.uid

\* C19: a confirm or reject by a client, and a cancel or create_booking by a
\* business, answers Forbidden; a confirm or reject by a business that does
\* not own the booking, and a cancel by a client that does not own it,
\* answers NotFound; each leaves every booking and every slot unchanged.
C19_NonOwnerChangesNothing ==
    [][/\ (last'.op \in {"confirm", "reject"} /\ last'.utype = "client")
            => last'.res = "Forbidden"
       /\ (last'.op \in {"cancel", "create_booking"} /\ last'.utype = "business")
            => last'.res = "Forbidden"
       /\ (last'.op \in {"confirm", "reject"} /\ last'.utype = "business"
             /\ NotOfCallingBusiness)
            => last'.res = "NotFound"
       /\ (last'.op = "cancel" /\ last'.utype = "client" /\ NotOfCallingClient)
            => last'.res = "NotFound"
       /\ last'.res \in {"Forbidden", "NotFound"}
            => bookings' = bookings /\ availability' = availability]_vars

\* C19 witness: business 2 asked to reject a pending booking of business 1 and
\* was answered NotFound; the booking is pending and its slot booked.
C19_Witness ==
    /\ last.op = "reject"
    /\ last.utype = "business"
    /\ last.uid = 2
    /\ last.res = "NotFound"
    /\ last.id \in 1 .. Len(bookings)
    /\ bookings[last.id].business_id = 1
    /\ bookings[last.id].status = "pending"
    /\ availability[bookings[last.id].availability_id].status = "booked"

\* C20: reject is one atomic unit: once a reject of a booking has ended, with
\* its response or with a failure between its two writes, it is not the case
\* that the booking's slot is available while the booking is still pending
\* or confirmed.
C20_RejectAtomic ==
    (last.op = "reject" /\ last.res \in {"ok", "InternalError"}) =>
        ~(/\ availability[bookings[last.id].availability_id].status = "available"
          /\ bookings[last.id].status \in {"pending", "confirmed"})

\* C21: once a client cancel has applied a charge greater than 0, the slot of
\* that booking keeps status booked: no step returns the slot of a booking
\* that carries a charge from booked to any other status.
C21_LateCancelKeepsSlot ==
    [][\A id \in 1 .. Len(bookings) :
          (/\ bookings[id].cancellation_charge > 0
           /\ availability[bookings[id].availability_id].status = "booked")
          => availability'[bookings[id].availability_id].status = "booked"]_vars

\* C22: a slot becomes booked only by a successful create_booking against
\* it: every slot with status booked is referenced by at least one booking,
\* and a schedule edit never leaves a slot booked that was not booked before.
C22_BookedOnlyByCreate ==
    [][/\ \A i \in 1 .. Len(availability') :
            availability'[i].status = "booked"
               => \E id \in 1 .. Len(bookings') : bookings'[id].availability_id = i
       /\ last'.op = "upsert_many" =>
            \A i \in 1 .. Len(availability') :
               availability'[i].status = "booked"
                  => (i <= Len(availability) /\ availability[i].status = "booked")]_vars

\* C23: every availability slot has status available or booked, and no two
\* slots share (business_id, date, time), whatever the entries of a schedule
\* edit carry.
C23_SlotStatusDomain ==
    /\ \A i \in 1 .. Len(availability) :
          availability[i].status \in {"available", "booked"}
    /\ \A i, j \in 1 .. Len(availability) :
          (/\ availability[i].business_id = availability[j].business_id
           /\ availability[i].date = availability[j].date) => i = j

\* C24: every create_booking terminates: a request that has entered the
\* code loop leaves it (and answers) after finitely many turns, whatever
\* codes the bookings table holds.
C24_CreateTerminates == reqs[1].busy ~> ~reqs[1].busy

\* C25: confirm only flips the booking's status: a successful confirm leaves
\* the slot ledger, the services, the reviews and the ratings as they were,
\* and the bookings table differs in nothing but the status of the booking
\* named (price, commission_amount, cancellation_charge, confirmation_code
\* and every other booking unchanged).
C25_ConfirmOnlyFlipsStatus ==
    [][(last'.op = "confirm" /\ last'.res = "ok") =>
          /\ availability' = availability
          /\ services' = services
          /\ reviews' = reviews
          /\ businesses' = businesses
          /\ Len(bookings') = Len(bookings)
          /\ \A i \in 1 .. Len(bookings) :
                IF i = last'.id
                THEN /\ bookings'[i].status = "confirmed"
                     /\ bookings'[i] = [bookings[i] EXCEPT !.status = "confirmed"]
                ELSE bookings'[i] = bookings[i]]_vars

\* C25 witness: a confirm succeeded on a booking that carries a charge while
\* a second booking exists.
C25_Witness ==
    /\ Did("confirm")
    /\ Len(bookings) = 2
    /\ bookings[last.id].status = "confirmed"
    /\ bookings[last.id].cancellation_charge > 0

\* C26: a business's rating and total_reviews change only through a
\* successful attach_review for a booking of that business: every other
\* step (create, confirm, reject, cancel, schedule and service edits, failed
\* reviews, reviews of another business) leaves them as they were.
C26_RatingFrame ==
    [][\A b \in BusinessIds :
          businesses'[b] # businesses[b] =>
             /\ last'.op = "attach_review"
             /\ last'.res = "ok"
             /\ last'.id \in 1 .. Len(bookings)
             /\ bookings[last'.id].business_id = b]_vars

\* C26 witness: both businesses have one review each, with different
\* ratings, the last one just attached.
C26_Witness ==
    /\ Did("attach_review")
    /\ businesses[1].total_reviews = 1
    /\ businesses[2].total_reviews = 1
    /\ businesses[1].rating # businesses[2].rating

\* C27: every booking whose status is pending or confirmed references a slot
\* whose status is booked.
C27_ActiveBookingHoldsSlot ==
    \A id \in 1 .. Len(bookings) :
        bookings[id].status \in {"pending", "confirmed"}
            => availability[bookings[id].availability_id].status = "booked"

\* C28: a booking whose cancellation_charge is greater than 0 has status
\* cancelled.
C28_ChargeOnlyOnCancelled ==
    \A id \in 1 .. Len(bookings) :
        bookings[id].cancellation_charge > 0 => bookings[id].status = "cancelled"

\* The fields of a booking that name who booked what and when.
Identity(bk) ==
    << bk.client_id, bk.business_id, bk.service_id, bk.availability_id, bk.date >>

Released ==
    \/ Did("reject")
    \/ Did("cancel") /\ bookings[last.id].cancellation_charge = 0

\* C30: a released slot is bookable again: when the step right after a
\* release is a create_booking of a client for the same business and date
\* with an active service of that business, it succeeds and inserts a
\* pending booking with the availability_id of the released booking, which
\* stays cancelled.
C30_ReleasedSlotBookable ==
    [][(Released /\ last'.op = "create_booking") =>
          \A u \in ClientIds, sid \in ServiceIds :
             (/\ ~ForeignOrInactive(sid, bookings[last.id].business_id)
              /\ CreateBooking("client", u, bookings[last.id].business_id, sid,
                               bookings[last.id].date, CodeOfStep))
             => /\ last'.res = "ok"
                /\ Len(bookings') = Len(bookings) + 1
                /\ bookings'[Len(bookings')].status = "pending"
                /\ bookings'[Len(bookings')].availability_id
                      = bookings[last.id].availability_id
                /\ availability'[bookings[last.id].availability_id].status = "booked"
                /\ bookings'[last.id].status = "cancelled"]_vars

\* C30 witness: booking 2 was just created, pending, on the slot of booking
\* 1, which is cancelled without charge.
C30_Witness ==
    /\ Did("create_booking")
    /\ last.id = 2
    /\ bookings[1].status = "cancelled"
    /\ bookings[1].cancellation_charge = 0
    /\ bookings[2].status = "pending"
    /\ bookings[2].availability_id = bookings[1].availability_id

====
